---- MODULE Spec2Model ----
(***************************************************************************)
(* Model of the upload-progress notification channel of vuemantics:       *)
(* the VuemanticWebSocket transport (socket.client.ts), its reconnection  *)
(* controller, heartbeat and subscription commands, together with the     *)
(* browser WebSocket / timer environment that drives its handlers; the    *)
(* useSocket hook that owns the transport; and the progress aggregators   *)
(* (useUploadProgress, useBatchProgress, useFileProgress and the global   *)
(* batch progress store) with their auto-expiry timers; and the bulk       *)
(* upload page with its queue store (bulk-upload.ui.store.ts).            *)
(***************************************************************************)
EXTENDS Integers, Sequences, FiniteSets, TLC

VARIABLES
    constructed,            \* the constructor of VuemanticWebSocket has run
    accessToken,            \* what config.getToken() returns right now
    ws,                     \* this.ws: 0 (null) or the id of a physical socket
    attempt,                \* this.attempt
    heartbeatTimer,         \* this.heartbeatTimer: 0 (null) or an interval handle
    reconnectTimer,         \* this.reconnectTimer: 0 (null) or a timeout handle
    isIntentionallyClosed,  \* this.isIntentionallyClosed
    readyState,             \* readyState of every physical socket
    connToken,              \* the token captured by connect() for a socket's handlers
    timeouts,               \* armed window.setTimeout timers: [id, delay]
    intervals,              \* active window.setInterval timers (handles)
    sent,                   \* per socket, the frames passed to send()
    closeCalls,             \* number of physical close(1000, ...) calls issued
    calls,                  \* consumer callbacks invoked by the last handler
    errCount,               \* per error kind, how often onError has reported it
    failedSinceAuth,        \* recoverable closes handled since the last auth_success
                            \* (counted up to maxRetries + 1)
    failedSinceOpen,        \* recoverable closes handled since the last physical open
                            \* (counted up to maxRetries + 1)
    lastOp                  \* the handler that ran last, with its input

vars == <<constructed, accessToken, ws, attempt, heartbeatTimer, reconnectTimer,
          isIntentionallyClosed, readyState, connToken, timeouts, intervals,
          sent, closeCalls, calls, errCount, failedSinceAuth, failedSinceOpen,
          lastOp>>

(* The useSocket hook (useSocket.ts) of one mounted consumer               *)
VARIABLES
    mounted,                \* "no" before the first render, "yes", "gone" after unmount
    enabled,                \* options.enabled of the last render
    storeToken,             \* useAccessToken() of the last render
    wsRef,                  \* wsRef.current: 0 (null) or a VuemanticWebSocket
    created,                \* the VuemanticWebSocket objects constructed so far
    closeCount,             \* per object, how often its close() has been called
    instConnected,          \* per object, what its isConnected() returns
    checkConnection,        \* the 1000 ms setInterval of the effect is active
    isConnected,            \* the isConnected React state
    hookOp                  \* the hook step taken last

hookVars == <<mounted, enabled, storeToken, wsRef, created, closeCount,
              instConnected, checkConnection, isConnected, hookOp>>

(* One progress aggregator: the hook instance or store named by focus      *)
VARIABLES
    focus,                  \* which aggregator this behaviour exercises
    progress,               \* its mapping from identifier to latest state
    objId,                  \* identity of the object that holds the mapping
    snapshot,               \* <<>> or the object a consumer read, with its contents then
    expiry,                 \* pending setTimeout(..., 5000) callbacks, oldest first
    awaiting,               \* per upload, handleCompleted calls awaiting onComplete
    currentFile,            \* useFileProgress.currentFile: <<>> (null) or <<state>>
    aggCalls,               \* side-effects invoked by the last aggregator step
    aggOp                   \* the aggregator step taken last

aggVars == <<focus, progress, objId, snapshot, expiry, awaiting, currentFile,
             aggCalls, aggOp>>

(* Record of one delivery run on an open socket                            *)
VARIABLES
    delivered,              \* frames the socket has delivered, in order
    dispatched              \* callbacks the transport has invoked, in order

ordVars == <<delivered, dispatched>>

(* The bulk upload page and useBulkUploadUIStore                           *)
VARIABLES
    store,                  \* the store's state: fileQueue, dragActive, currentBatchId
    creating,               \* createBulkUpload.mutate calls awaiting the server
    bulkOp                  \* the page step taken last

bulkVars == <<store, creating, bulkOp>>

outsideTransport == <<hookVars, aggVars, ordVars, bulkVars>>
outsideHook == <<vars, aggVars, ordVars, bulkVars>>
outsideAgg == <<vars, hookVars, ordVars, bulkVars>>
outsideBulk == <<vars, hookVars, aggVars, ordVars>>

----------------------------------------------------------------------------
(* Bounds of the model                                                     *)

MaxSock == 2         \* physical sockets that can be alive at the same time
MaxTimers == 4       \* timer handles that can be in use at the same time
MaxSent == 2         \* frames recorded per physical socket
MaxErrEvents == 1    \* physical error events the environment delivers
RandGrain == 3       \* Math.random() returns k / RandGrain, k in 0..RandGrain-1
MaxInst == 3         \* VuemanticWebSocket objects one hook constructs
MaxExpiry == 2       \* auto-expiry timeouts pending at the same time
MaxAwait == 1        \* completion side-effects pending per upload
MaxDelivered == 2    \* frames recorded in one delivery run
MaxQueue == 2        \* files in the bulk upload queue
MaxCreating == 1     \* bulk upload requests in flight

(* Program constants                                                       *)

maxRetries == 10
initialDelay == 1000
maxDelay == 30000
JitterRange == 3000
HeartbeatMs == 30000

NULL == "null"
Tokens == {NULL, "", "tokA", "tokB"}
UploadIds == {"u1"}
CloseCodes == {1000, 1001, 1006, 4000, 4001, 4004, 4005}
ErrorKinds == {"NO_TOKEN", "AUTH_FAILED", "CONNECTION_FAILED", "MAX_RETRIES",
               "SERVER_MESSAGE"}

SockIds == 1..MaxSock
TimerIds == 1..MaxTimers

(* Inbound frames: raw text that is or is not JSON, with an action tag and *)
(* a payload that does or does not have the shape the schema demands.      *)
InboundFrames ==
    [json : {TRUE}, action : {"auth_success", "auth_error", "upload_progress",
                              "upload_completed", "upload_failed",
                              "batch_progress", "file_progress", "ping",
                              "bogus"},
     shapeOk : BOOLEAN, id : UploadIds]
    \cup [json : {FALSE}, action : {"bogus"}, shapeOk : {FALSE}, id : UploadIds]

InstIds == 1..MaxInst

(* Progress aggregators and the identifiers and payloads they are fed      *)
Aggregators == {"upload", "batch", "file", "global"}
AggIds == {"x1", "x2"}
ExpiryMs == 5000

----------------------------------------------------------------------------
(* Helpers                                                                 *)

Min(a, b) == IF a <= b THEN a ELSE b

RECURSIVE Pow2(_)
Pow2(n) == IF n <= 0 THEN 1 ELSE 2 * Pow2(n - 1)

Frame(kind, arg) == [kind |-> kind, arg |-> arg]
Call(cb, arg) == [cb |-> cb, arg |-> arg]
Op(name, sock, code, text) == [op |-> name, sock |-> sock, code |-> code, text |-> text]

(* variant: only null counts as a missing token *)
FalsyNullOnly(token) == token = NULL

(* !token in connect(): null and the empty string are both falsy *)
Falsy(token) == token = NULL \/ token = ""

(* variant: any socket the object holds passes the test *)
IsOpenUnchecked(w, rs) == w # 0

(* variant: a socket that is still connecting passes the test too *)
IsOpenOrConnecting(w, rs) == w # 0 /\ rs[w] \in {"OPEN", "CONNECTING"}

(* this.ws?.readyState === WebSocket.OPEN *)
IsOpen(w, rs) == w # 0 /\ rs[w] = "OPEN"

(* serverMessageSchema: the discriminated union lists six actions *)
SchemaActions == {"upload_progress", "upload_completed", "upload_failed",
                  "auth_success", "auth_error", "ping"}

(* variant: only the action tag is looked at, not the payload *)
SafeParseTagOnly(m) == m.json /\ m.action \in SchemaActions

(* JSON.parse followed by serverMessageSchema.safeParse *)
SafeParse(m) == m.json /\ m.action \in SchemaActions /\ m.shapeOk

(* variant: the exponent is the counter itself *)
BaseDelayOffByOne(a) == Min(initialDelay * Pow2(a), maxDelay)

(* baseDelay of scheduleReconnect for the already incremented counter a *)
BaseDelay(a) == Min(initialDelay * Pow2(a - 1), maxDelay)

(* Math.random() * 3000 for the draw k / RandGrain *)
Jitter(k) == (k * JitterRange) \div RandGrain

ReconnectDelay(a, k) == BaseDelay(a) + Jitter(k)

(* variant: the upper end of the range is left out *)
IsAuthFailureCodeOpenEnd(code) == code >= 4001 /\ code < 4004

(* the close-code range onclose reports as an authentication failure *)
IsAuthFailureCode(code) == code >= 4001 /\ code <= 4004

(* variant: the budget is found used up one attempt early *)
RetriesExhaustedEarly(a) == a >= maxRetries - 1

(* variant: the budget test lets one more attempt through *)
RetriesExhaustedLate(a) == a > maxRetries

(* the retry budget test at the top of scheduleReconnect *)
RetriesExhausted(a) == a >= maxRetries

ErrInc(ec, kind) == [ec EXCEPT ![kind] = @ + 1]

----------------------------------------------------------------------------
(* The browser's WebSocket and timers                                      *)

(* WebSocket.close(): a socket that is connecting or open starts closing *)
WsClose(rs, s) ==
    IF rs[s] \in {"CONNECTING", "OPEN"} THEN [rs EXCEPT ![s] = "CLOSING"] ELSE rs

(* WebSocket.send(frame) on socket s, recorded up to MaxSent frames *)
WsSend(sn, s, frame) == [sn EXCEPT ![s] = Append(@, frame)]

(* new WebSocket(url): the object gets an identity no live socket has; a   *)
(* socket whose close event has been handled delivers nothing any more,    *)
(* so its identity can be given out again.                                 *)
FreeSocks(rs) == {s \in SockIds : rs[s] \in {"NONE", "CLOSED"}}
NewSock(rs) == CHOOSE s \in FreeSocks(rs) : \A o \in FreeSocks(rs) : s <= o

(* window.setTimeout / setInterval return a handle that no active timer    *)
(* has and that no field of the object still holds.                        *)
FreeTimers(ts, is, ht, rt) ==
    {n \in TimerIds : n \notin ({t.id : t \in ts} \cup is \cup {ht, rt})}
NewTimer(ts, is, ht, rt) ==
    CHOOSE n \in FreeTimers(ts, is, ht, rt) :
        \A o \in FreeTimers(ts, is, ht, rt) : n <= o

(* window.clearTimeout / window.clearInterval *)
ClearTimeout(ts, id) == {t \in ts : t.id # id}
ClearInterval(is, id) == is \ {id}

----------------------------------------------------------------------------
(* Pieces of VuemanticWebSocket                                            *)

TypeOK ==
    /\ constructed \in BOOLEAN
    /\ accessToken \in Tokens
    /\ ws \in 0..MaxSock
    /\ attempt \in Nat
    /\ heartbeatTimer \in 0..MaxTimers
    /\ reconnectTimer \in 0..MaxTimers
    /\ isIntentionallyClosed \in BOOLEAN
    /\ readyState \in [SockIds -> {"NONE", "CONNECTING", "OPEN", "CLOSING", "CLOSED"}]
    /\ connToken \in [SockIds -> Tokens]
    /\ \A t \in timeouts : t.id \in TimerIds /\ t.delay \in Nat
    /\ intervals \subseteq TimerIds
    /\ \A s \in SockIds : Len(sent[s]) <= MaxSent
    /\ closeCalls \in Nat
    /\ errCount \in [ErrorKinds -> Nat]
    /\ failedSinceAuth \in 0..(maxRetries + 1)
    /\ failedSinceOpen \in 0..(maxRetries + 1)

(* variant: the frame goes out without the token *)
AuthFrameNoToken(token) == Frame("auth", "")

(* the frame onopen sends: { type: 'auth', token } *)
AuthFrame(token) == Frame("auth", token)

(* variant: onopen reads the accessor again instead of using its capture *)
OpenTokenReRead(captured, current) == current

(* the token onopen puts into the auth frame: the const of connect() *)
OpenToken(captured, current) == captured

(* variant: the liveness echo repeats the probe *)
PongFramePing == Frame("ping", "")

(* the reply to a server ping: { action: 'pong' } *)
PongFrame == Frame("pong", "")

(* variant: close() does not mark the close as intentional *)
IntentionalAfterCloseKept(f) == f

(* this.isIntentionallyClosed = true at the start of close() *)
IntentionalAfterClose(f) == TRUE

(* variant: the reconnect timer is periodic and stays armed *)
AfterFireRepeating(ts, t) == ts

(* window.setTimeout is one-shot: the timer that fired is gone *)
AfterFire(ts, t) == ts \ {t}

(* variant: close() leaves the reconnect timer alone *)
CancelReconnectMissing(ts, rt) == ts

(* what close() does with a pending reconnect timer (lines 216-219) *)
CancelReconnect(ts, rt) == IF rt # 0 THEN ClearTimeout(ts, rt) ELSE ts

(* variant: stopHeartbeat() leaves the interval running *)
StopHeartbeatMissing(is, ht) == is

(* stopHeartbeat(): the interval set it leaves behind *)
StopHeartbeat(is, ht) == IF ht # 0 THEN ClearInterval(is, ht) ELSE is

(* variant: a normal closure is not told apart from a dropped connection *)
CloseDispositionNo1000(intentional, code) ==
    IF intentional THEN "stop"
    ELSE IF IsAuthFailureCode(code) THEN "authFailed"
    ELSE "reconnect"

(* onclose, after stopHeartbeat: what the close event leads to *)
CloseDisposition(intentional, code) ==
    IF intentional THEN "stop"
    ELSE IF code = 1000 THEN "stop"
    ELSE IF IsAuthFailureCode(code) THEN "authFailed"
    ELSE "reconnect"

(* variant: the counter is advanced by two *)
AttemptIncrementTwice(a) == a + 2

(* variant: the counter is not advanced *)
AttemptIncrementMissing(a) == a

(* this.attempt++ in scheduleReconnect *)
AttemptIncrement(a) == a + 1

(* variant: close() keeps the reference to the socket *)
WsAfterCloseKept(w) == w

(* this.ws = null at the end of close() *)
WsAfterClose(w) == 0

(* variant: onopen leaves the counter alone *)
AttemptOnOpenKept(a) == a

(* onopen's assignment to this.attempt *)
AttemptOnOpen(a) == 0

(* the auth_success case of onmessage leaves this.attempt alone *)
AttemptOnAuthSuccess(a) == a

(* connect(): reads the token afresh; without one it reports NO_TOKEN and  *)
(* returns, otherwise it creates the next physical socket.                 *)
Connect ==
    IF Falsy(accessToken)
    THEN /\ calls' = <<Call("onError", "NO_TOKEN")>>
         /\ errCount' = ErrInc(errCount, "NO_TOKEN")
         /\ UNCHANGED <<ws, readyState, connToken>>
    ELSE /\ FreeSocks(readyState) # {}
         /\ ws' = NewSock(readyState)
         /\ readyState' = [readyState EXCEPT ![NewSock(readyState)] = "CONNECTING"]
         /\ connToken' = [connToken EXCEPT ![NewSock(readyState)] = accessToken]
         /\ calls' = <<>>
         /\ UNCHANGED errCount

(* scheduleReconnect(), run at the end of onclose *)
ScheduleReconnect ==
    IF RetriesExhausted(attempt)
    THEN /\ calls' = <<Call("onError", "MAX_RETRIES")>>
         /\ errCount' = ErrInc(errCount, "MAX_RETRIES")
         /\ UNCHANGED <<attempt, reconnectTimer, timeouts>>
    ELSE \E k \in 0..(RandGrain - 1) :
         LET h == NewTimer(timeouts, intervals', heartbeatTimer', reconnectTimer) IN
         /\ FreeTimers(timeouts, intervals', heartbeatTimer', reconnectTimer) # {}
         /\ attempt' = AttemptIncrement(attempt)
         /\ reconnectTimer' = h
         /\ timeouts' = timeouts \cup
                {[id |-> h, delay |-> ReconnectDelay(AttemptIncrement(attempt), k)]}
         /\ calls' = <<>>
         /\ UNCHANGED errCount

(* close(): flag, reconnect timer, heartbeat, physical close, this.ws = null *)
DoClose ==
    /\ isIntentionallyClosed' = IntentionalAfterClose(isIntentionallyClosed)
    /\ timeouts' = CancelReconnect(timeouts, reconnectTimer)
    /\ reconnectTimer' = 0
    /\ intervals' = StopHeartbeat(intervals, heartbeatTimer)
    /\ heartbeatTimer' = 0
    /\ IF ws # 0
       THEN /\ readyState' = WsClose(readyState, ws)
            /\ closeCalls' = closeCalls + 1
       ELSE UNCHANGED <<readyState, closeCalls>>
    /\ ws' = WsAfterClose(ws)

----------------------------------------------------------------------------
(* Initial state: the field initialisers of the class, before the          *)
(* constructor body has run.                                               *)

(* what a step was called with, when it is not a payload: nothing, or the  *)
(* yes/no of an optional callback or of an outcome                         *)
NoArg == [none |-> TRUE]
Flag(b) == [flag |-> b]

(* the parts of the program a behaviour does not exercise stay as they    *)
(* are before anything has run                                             *)
HookAbsent ==
    /\ mounted = "no" /\ enabled = FALSE /\ storeToken = NULL
    /\ wsRef = 0 /\ created = {}
    /\ closeCount = [i \in InstIds |-> 0]
    /\ instConnected = [i \in InstIds |-> FALSE]
    /\ checkConnection = FALSE /\ isConnected = FALSE
    /\ hookOp = "init"

AggAbsent ==
    /\ focus = "none" /\ progress = <<>> /\ objId = 1 /\ snapshot = <<>>
    /\ expiry = <<>> /\ awaiting = [x \in AggIds |-> 0]
    /\ currentFile = <<>> /\ aggCalls = <<>>
    /\ aggOp = [op |-> "init", id |-> "", arg |-> NoArg, before |-> -1]

OrdAbsent == delivered = <<>> /\ dispatched = <<>>

BulkAbsent ==
    /\ store = [fileQueue |-> <<>>, dragActive |-> FALSE, currentBatchId |-> NULL]
    /\ creating = 0
    /\ bulkOp = [op |-> "init", id |-> ""]

TransportAbsent ==
    /\ constructed = FALSE /\ accessToken = NULL /\ ws = 0 /\ attempt = 0
    /\ heartbeatTimer = 0 /\ reconnectTimer = 0
    /\ isIntentionallyClosed = FALSE
    /\ readyState = [s \in SockIds |-> "NONE"]
    /\ connToken = [s \in SockIds |-> NULL]
    /\ timeouts = {} /\ intervals = {}
    /\ sent = [s \in SockIds |-> <<>>]
    /\ closeCalls = 0 /\ calls = <<>>
    /\ errCount = [k \in ErrorKinds |-> 0]
    /\ failedSinceAuth = 0 /\ failedSinceOpen = 0
    /\ lastOp = Op("init", 0, 0, "")

Init ==
    /\ constructed = FALSE
    /\ accessToken \in Tokens
    /\ ws = 0
    /\ attempt = 0
    /\ heartbeatTimer = 0
    /\ reconnectTimer = 0
    /\ isIntentionallyClosed = FALSE
    /\ readyState = [s \in SockIds |-> "NONE"]
    /\ connToken = [s \in SockIds |-> NULL]
    /\ timeouts = {}
    /\ intervals = {}
    /\ sent = [s \in SockIds |-> <<>>]
    /\ closeCalls = 0
    /\ calls = <<>>
    /\ errCount = [k \in ErrorKinds |-> 0]
    /\ failedSinceAuth = 0
    /\ failedSinceOpen = 0
    /\ lastOp = Op("init", 0, 0, "")
    /\ HookAbsent /\ AggAbsent /\ OrdAbsent /\ BulkAbsent

----------------------------------------------------------------------------
(* Operations                                                              *)

(* constructor(config): stores the config and calls connect() *)
Constructor ==
    /\ UNCHANGED outsideTransport
    /\ ~constructed
    /\ constructed' = TRUE
    /\ Connect
    /\ lastOp' = Op("constructor", 0, 0, accessToken)
    /\ UNCHANGED <<accessToken, attempt, heartbeatTimer, reconnectTimer,
                   isIntentionallyClosed, timeouts, intervals, sent,
                   closeCalls, failedSinceAuth, failedSinceOpen>>

(* the token store changes (rotation, logout): getToken() reads it by ref *)
SetToken(t) ==
    /\ UNCHANGED outsideTransport
    /\ t # accessToken
    /\ accessToken' = t
    /\ calls' = <<>>
    /\ lastOp' = Op("setToken", 0, 0, t)
    /\ UNCHANGED <<constructed, ws, attempt, heartbeatTimer, reconnectTimer,
                   isIntentionallyClosed, readyState, connToken,
                   timeouts, intervals, sent, closeCalls,
                   errCount, failedSinceAuth, failedSinceOpen>>

(* ws.onopen of socket s: reset attempt, send auth, startHeartbeat() *)
OnOpen(s) ==
    /\ UNCHANGED outsideTransport
    /\ readyState[s] = "CONNECTING"
    /\ readyState' = [readyState EXCEPT ![s] = "OPEN"]
    /\ attempt' = AttemptOnOpen(attempt)
    /\ sent' = IF ws # 0
               THEN WsSend(sent, ws, AuthFrame(OpenToken(connToken[s], accessToken)))
               ELSE sent
    /\ FreeTimers(timeouts, intervals, heartbeatTimer, reconnectTimer) # {}
    /\ heartbeatTimer' = NewTimer(timeouts, intervals, heartbeatTimer, reconnectTimer)
    /\ intervals' = intervals \cup
           {NewTimer(timeouts, intervals, heartbeatTimer, reconnectTimer)}
    /\ calls' = <<>>
    /\ lastOp' = Op("onopen", s, 0, connToken[s])
    /\ failedSinceOpen' = 0
    /\ UNCHANGED <<constructed, accessToken, ws, reconnectTimer,
                   isIntentionallyClosed, connToken, timeouts,
                   closeCalls, errCount, failedSinceAuth>>

(* ws.onclose of socket s with close code `code` *)
OnClose(s, code) ==
    /\ UNCHANGED outsideTransport
    /\ readyState[s] \in {"CONNECTING", "OPEN", "CLOSING"}
    /\ readyState' = [readyState EXCEPT ![s] = "CLOSED"]
    /\ connToken' = [connToken EXCEPT ![s] = NULL]
    /\ sent' = [sent EXCEPT ![s] = <<>>]
    /\ intervals' = StopHeartbeat(intervals, heartbeatTimer)
    /\ heartbeatTimer' = 0
    /\ lastOp' = Op("onclose", s, code, CloseDisposition(isIntentionallyClosed, code))
    /\ LET d == CloseDisposition(isIntentionallyClosed, code) IN
       CASE d = "stop" ->
              /\ calls' = <<>>
              /\ UNCHANGED <<attempt, reconnectTimer, timeouts,
                             errCount, failedSinceAuth, failedSinceOpen>>
         [] d = "authFailed" ->
              /\ calls' = <<Call("onError", "AUTH_FAILED")>>
              /\ errCount' = ErrInc(errCount, "AUTH_FAILED")
              /\ UNCHANGED <<attempt, reconnectTimer, timeouts,
                             failedSinceAuth, failedSinceOpen>>
         [] d = "reconnect" ->
              /\ ScheduleReconnect
              /\ failedSinceAuth' = Min(failedSinceAuth + 1, maxRetries + 1)
              /\ failedSinceOpen' = Min(failedSinceOpen + 1, maxRetries + 1)
    /\ UNCHANGED <<constructed, accessToken, ws, isIntentionallyClosed,
                   closeCalls>>

(* variant: the error event also stops the heartbeat *)
OnErrorStopsHeartbeat(s) ==
    /\ UNCHANGED outsideTransport
    /\ readyState[s] \in {"CONNECTING", "OPEN", "CLOSING"}
    /\ errCount["CONNECTION_FAILED"] < MaxErrEvents
    /\ calls' = <<Call("onError", "CONNECTION_FAILED")>>
    /\ errCount' = ErrInc(errCount, "CONNECTION_FAILED")
    /\ lastOp' = Op("onerror", s, 0, "")
    /\ intervals' = StopHeartbeat(intervals, heartbeatTimer)
    /\ heartbeatTimer' = 0
    /\ UNCHANGED <<constructed, accessToken, ws, attempt,
                   reconnectTimer, isIntentionallyClosed, readyState,
                   connToken, timeouts, sent, closeCalls,
                   failedSinceAuth, failedSinceOpen>>

(* ws.onerror of socket s *)
OnError(s) ==
    /\ UNCHANGED outsideTransport
    /\ readyState[s] \in {"CONNECTING", "OPEN", "CLOSING"}
    /\ errCount["CONNECTION_FAILED"] < MaxErrEvents
    /\ calls' = <<Call("onError", "CONNECTION_FAILED")>>
    /\ errCount' = ErrInc(errCount, "CONNECTION_FAILED")
    /\ lastOp' = Op("onerror", s, 0, "")
    /\ UNCHANGED <<constructed, accessToken, ws, attempt, heartbeatTimer,
                   reconnectTimer, isIntentionallyClosed, readyState,
                   connToken, timeouts, intervals, sent, closeCalls,
                   failedSinceAuth, failedSinceOpen>>

(* the reconnect timeout t fires: its callback runs connect() *)
ReconnectFire(t) ==
    /\ UNCHANGED outsideTransport
    /\ t \in timeouts
    /\ timeouts' = AfterFire(timeouts, t)
    /\ Connect
    /\ lastOp' = Op("reconnectFire", 0, 0, accessToken)
    /\ UNCHANGED <<constructed, accessToken, attempt, heartbeatTimer,
                   reconnectTimer, isIntentionallyClosed, intervals,
                   sent, closeCalls, failedSinceAuth, failedSinceOpen>>

(* the heartbeat interval h ticks: ping if the current socket is open *)
HeartbeatTick(h) ==
    /\ UNCHANGED outsideTransport
    /\ h \in intervals
    /\ IsOpen(ws, readyState) => Len(sent[ws]) < MaxSent
    /\ sent' = IF IsOpen(ws, readyState)
               THEN WsSend(sent, ws, Frame("ping", ""))
               ELSE sent
    /\ calls' = <<>>
    /\ lastOp' = Op("heartbeat", ws, 0, "")
    /\ UNCHANGED <<constructed, accessToken, ws, attempt, heartbeatTimer,
                   reconnectTimer, isIntentionallyClosed, readyState,
                   connToken, timeouts, intervals, closeCalls,
                   errCount, failedSinceAuth, failedSinceOpen>>

(* subscribeToUpload(uploadId) / unsubscribeFromUpload(uploadId), reached  *)
(* through wsRef.current?. of useSocket: without an instance nothing runs  *)
Command(name, kind, u) ==
    /\ UNCHANGED outsideTransport
    /\ IsOpen(ws, readyState) => Len(sent[ws]) < MaxSent
    /\ sent' = IF IsOpen(ws, readyState)
               THEN WsSend(sent, ws, Frame(kind, u))
               ELSE sent
    /\ calls' = <<>>
    /\ lastOp' = Op(name, ws, 0, u)
    /\ UNCHANGED <<constructed, accessToken, ws, attempt, heartbeatTimer,
                   reconnectTimer, isIntentionallyClosed, readyState,
                   connToken, timeouts, intervals, closeCalls,
                   errCount, failedSinceAuth, failedSinceOpen>>

subscribeToUpload(u) == Command("subscribeToUpload", "subscribe_upload", u)

(* variant: the command goes out under the subscribe tag *)
unsubscribeFromUploadAsSubscribe(u) ==
    Command("unsubscribeFromUpload", "subscribe_upload", u)

unsubscribeFromUpload(u) == Command("unsubscribeFromUpload", "unsubscribe_upload", u)

(* close() called by the consumer *)
Close ==
    /\ UNCHANGED outsideTransport
    /\ constructed
    /\ DoClose
    /\ calls' = <<>>
    /\ lastOp' = Op("close", ws,
                     IF \E t \in timeouts : t.id = reconnectTimer THEN 1 ELSE 0,
                     IF isIntentionallyClosed THEN "again" ELSE "first")
    /\ UNCHANGED <<constructed, accessToken, attempt, connToken,
                   sent, errCount, failedSinceAuth, failedSinceOpen>>

(* what arrived: 0 text that is not JSON, 1 JSON whose payload does not    *)
(* have the shape its action demands, 2 JSON with a well-shaped payload    *)
FrameClass(m) == IF ~m.json THEN 0 ELSE IF ~m.shapeOk THEN 1 ELSE 2

(* variant: every forwarded message goes to the progress callback *)
DispatchToProgress(action) == "onProgress"

(* the switch of onmessage: the consumer callback a parsed action goes to *)
Dispatch(action) ==
    CASE action = "auth_success" -> "onReconnect"
      [] action = "auth_error" -> "onError"
      [] action = "upload_progress" -> "onProgress"
      [] action = "upload_completed" -> "onCompleted"
      [] action = "upload_failed" -> "onFailed"
      [] action = "batch_progress" -> "onBatchProgress"
      [] action = "file_progress" -> "onFileProgress"
      [] OTHER -> "none"

(* what ws.onmessage of socket s does with inbound frame m *)
OnMessageEffect(s, m) ==
    /\ readyState[s] = "OPEN"
    /\ (SafeParse(m) /\ m.action = "ping" /\ ws # 0) => Len(sent[ws]) < MaxSent
    /\ lastOp' = Op("onmessage", s, FrameClass(m), m.action)
    /\ IF ~SafeParse(m)
       THEN /\ calls' = <<>>
            /\ UNCHANGED <<ws, attempt, heartbeatTimer, reconnectTimer,
                           isIntentionallyClosed, readyState, timeouts,
                           intervals, sent, closeCalls, errCount,
                           failedSinceAuth, failedSinceOpen>>
       ELSE CASE m.action = "auth_success" ->
                   /\ calls' = <<Call("onReconnect", "")>>
                   /\ attempt' = AttemptOnAuthSuccess(attempt)
                   /\ failedSinceAuth' = 0
                   /\ UNCHANGED <<failedSinceOpen, ws, heartbeatTimer, reconnectTimer,
                                  isIntentionallyClosed, readyState, timeouts,
                                  intervals, sent, closeCalls, errCount>>
              [] m.action = "auth_error" ->
                   /\ calls' = <<Call("onError", "SERVER_MESSAGE")>>
                   /\ errCount' = ErrInc(errCount, "SERVER_MESSAGE")
                   /\ DoClose
                   /\ UNCHANGED <<attempt, sent, failedSinceAuth, failedSinceOpen>>
              [] m.action = "ping" ->
                   /\ calls' = <<>>
                   /\ sent' = IF ws # 0 THEN WsSend(sent, ws, PongFrame)
                              ELSE sent
                   /\ UNCHANGED <<ws, attempt, heartbeatTimer, reconnectTimer,
                                  isIntentionallyClosed, readyState, timeouts,
                                  intervals, closeCalls, errCount,
                                  failedSinceAuth, failedSinceOpen>>
              [] OTHER ->
                   /\ calls' = <<Call(Dispatch(m.action), m.id)>>
                   /\ UNCHANGED <<ws, attempt, heartbeatTimer, reconnectTimer,
                                  isIntentionallyClosed, readyState, timeouts,
                                  intervals, sent, closeCalls, errCount,
                                  failedSinceAuth, failedSinceOpen>>
    /\ UNCHANGED <<constructed, accessToken, connToken>>

(* ws.onmessage of socket s with inbound frame m *)
OnMessage(s, m) == OnMessageEffect(s, m) /\ UNCHANGED outsideTransport

----------------------------------------------------------------------------
(* Specification                                                           *)

Next ==
    \/ Constructor
    \/ \E t \in Tokens : SetToken(t)
    \/ \E s \in SockIds : OnOpen(s)
    \/ \E s \in SockIds : \E m \in InboundFrames : OnMessage(s, m)
    \/ \E s \in SockIds : \E code \in CloseCodes : OnClose(s, code)
    \/ \E s \in SockIds : OnError(s)
    \/ \E t \in timeouts : ReconnectFire(t)
    \/ \E h \in intervals : HeartbeatTick(h)
    \/ \E u \in UploadIds : subscribeToUpload(u)
    \/ \E u \in UploadIds : unsubscribeFromUpload(u)
    \/ Close

Spec == Init /\ [][Next]_vars

----------------------------------------------------------------------------
(* Steps, recognised from the state change they make                       *)

CloseStep(s) ==
    readyState[s] \in {"CONNECTING", "OPEN", "CLOSING"} /\ readyState'[s] = "CLOSED"

OpenStep(s) == readyState[s] = "CONNECTING" /\ readyState'[s] = "OPEN"

NewSocketStep ==
    \E s \in SockIds : readyState[s] # "CONNECTING" /\ readyState'[s] = "CONNECTING"

LiveSocks == {s \in SockIds : readyState[s] \in {"CONNECTING", "OPEN", "CLOSING"}}

----------------------------------------------------------------------------
(* Properties                                                              *)

(* C1: once close() has been called no physical connection is created any  *)
(* more: no reconnect timer is armed in any later state (one armed before  *)
(* is cancelled by close()), and a close event delivered afterwards, with  *)
(* any close code, arms no timer and reports no error.                     *)
C1_NoConnectAfterClose ==
    [][ /\ isIntentionallyClosed' => timeouts' = {}
        /\ isIntentionallyClosed =>
             /\ ~NewSocketStep
             /\ \A s \in SockIds : CloseStep(s) =>
                  calls' = <<>> /\ errCount' = errCount /\ attempt' = attempt
      ]_vars

(* close() has just cancelled a reconnect timer that was pending *)
C1_Witness ==
    /\ lastOp.op = "close" /\ lastOp.code = 1 /\ lastOp.text = "first"
    /\ isIntentionallyClosed /\ attempt >= 1

(* the lower end of the delay interval the specification gives for attempt *)
(* n: min(1000 * 2^(n-1), 30000), written out                              *)
C2_Lower == <<1000, 2000, 4000, 8000, 16000, 30000, 30000, 30000, 30000, 30000>>

(* C2: the delay of the armed reconnect timer, computed after the counter  *)
(* was incremented to n in 1..10, lies in [lower(n), lower(n) + 3000).     *)
C2_DelayInRange ==
    \A t \in timeouts :
        /\ attempt \in 1..10
        /\ t.delay >= C2_Lower[attempt]
        /\ t.delay < C2_Lower[attempt] + 3000

(* a timer armed for the tenth attempt, with the cap and a jitter in force *)
C2_Witness == \E t \in timeouts : attempt = 10 /\ t.delay > 30000

AuthSuccessStep == lastOp'.op = "onmessage" /\ calls' = <<Call("onReconnect", "")>>

C5_AuthFailureClose ==
    [][ /\ errCount'["AUTH_FAILED"] <= 1
        /\ \A s \in SockIds :
             (CloseStep(s) /\ ~isIntentionallyClosed
                 /\ lastOp'.code >= 4001 /\ lastOp'.code <= 4004) =>
               /\ calls' = <<Call("onError", "AUTH_FAILED")>>
               /\ errCount' = [errCount EXCEPT !["AUTH_FAILED"] = @ + 1]
               /\ timeouts' = {} /\ timeouts = {}
               /\ reconnectTimer' = reconnectTimer
               /\ attempt' = attempt
      ]_vars

(* a close with the last code of the range has just been handled *)
C5_Witness ==
    /\ lastOp.op = "onclose" /\ lastOp.code = 4004
    /\ ~isIntentionallyClosed
    /\ calls = <<Call("onError", "AUTH_FAILED")>>

(* C6: a close event with code 1000, or any close event after close(),     *)
(* arms no reconnect timer and invokes no error callback; a close that is  *)
(* not intentional, not 1000 and not in 4001..4004 goes to the             *)
(* reconnection controller: it arms a timer while the budget lasts and     *)
(* reports MaxRetriesReached when it is used up.                           *)
C6_CloseCodeClasses ==
    [][ \A s \in SockIds : CloseStep(s) =>
          /\ (isIntentionallyClosed \/ lastOp'.code = 1000) =>
                /\ calls' = <<>> /\ errCount' = errCount
                /\ timeouts' = timeouts /\ reconnectTimer' = reconnectTimer
                /\ attempt' = attempt
          /\ (~isIntentionallyClosed /\ lastOp'.code # 1000
                 /\ ~(lastOp'.code >= 4001 /\ lastOp'.code <= 4004)) =>
                \/ /\ attempt < maxRetries
                   /\ Cardinality(timeouts') = 1
                   /\ calls' = <<>>
                \/ /\ attempt >= maxRetries
                   /\ timeouts' = {}
                   /\ calls' = <<Call("onError", "MAX_RETRIES")>>
      ]_vars

(* the server closed normally: nothing is scheduled and nothing reported *)
C6_Witness ==
    /\ lastOp.op = "onclose" /\ lastOp.code = 1000
    /\ ~isIntentionallyClosed
    /\ calls = <<>> /\ timeouts = {}

(* a step in which an armed reconnect timer fired *)
FireStep == lastOp'.op = "reconnectFire" /\ timeouts' # timeouts

(* sockets that the step created *)
Created == {s \in SockIds : readyState[s] # "CONNECTING" /\ readyState'[s] = "CONNECTING"}

(* C7: a recoverable close (not intentional, not 1000, not 4001..4004)     *)
(* handled while the counter is below maxRetries raises the counter by     *)
(* exactly one and arms exactly one reconnect timer; never is more than    *)
(* one armed; when it fires it is gone and exactly one connection attempt  *)
(* is made: one new socket, or the NoToken report of an attempt that found *)
(* no token.                                                               *)
C7_OneTimerOneAttempt ==
    [][ /\ Cardinality(timeouts') <= 1
        /\ \A s \in SockIds :
             (CloseStep(s) /\ ~isIntentionallyClosed /\ lastOp'.code # 1000
                 /\ ~(lastOp'.code >= 4001 /\ lastOp'.code <= 4004)
                 /\ attempt < maxRetries) =>
               /\ attempt' = attempt + 1
               /\ timeouts = {} /\ Cardinality(timeouts') = 1
               /\ \E t \in timeouts' : reconnectTimer' = t.id
        /\ FireStep =>
             /\ timeouts' = {}
             /\ attempt' = attempt
             /\ \/ Cardinality(Created) = 1 /\ calls' = <<>>
                \/ Created = {} /\ calls' = <<Call("onError", "NO_TOKEN")>>
      ]_vars

(* the timer armed by the third failure in a row has fired into a socket *)
C7_Witness ==
    /\ lastOp.op = "reconnectFire" /\ attempt = 3
    /\ ws # 0 /\ readyState[ws] = "CONNECTING" /\ timeouts = {}

(* the object's own state and everything it has done to the outside *)
ChannelState ==
    <<ws, attempt, heartbeatTimer, reconnectTimer, isIntentionallyClosed,
      readyState, timeouts, intervals, sent, closeCalls, errCount>>

(* C8: a call of close() after close() has already run changes nothing:    *)
(* no physical close is issued, no timer is touched, no callback runs and  *)
(* the connection state stays as the first close() left it.                *)
C8_SecondCloseNoOp ==
    [][ (lastOp'.op = "close" /\ isIntentionallyClosed) =>
          /\ ChannelState' = ChannelState
          /\ calls' = <<>>
          /\ ws = 0 /\ reconnectTimer = 0 /\ heartbeatTimer = 0
      ]_vars

(* close() ran again after a first close() that closed a physical socket *)
C8_Witness ==
    /\ lastOp.op = "close" /\ lastOp.text = "again"
    /\ closeCalls = 1 /\ ws = 0

(* C9: a connection attempt (by the constructor or by the reconnect timer) *)
(* that finds the token null or empty reports NoToken through the error    *)
(* callback, creates no physical socket and arms no reconnect timer.       *)
C9_NoTokenNoAttempt ==
    [][ (((~constructed /\ constructed') \/ FireStep)
           /\ (accessToken = NULL \/ accessToken = "")) =>
          /\ calls' = <<Call("onError", "NO_TOKEN")>>
          /\ errCount' = [errCount EXCEPT !["NO_TOKEN"] = @ + 1]
          /\ readyState' = readyState /\ ws' = ws
          /\ timeouts' = {}
      ]_vars

(* the reconnect timer fired after the token had become the empty string *)
C9_Witness ==
    /\ lastOp.op = "reconnectFire" /\ lastOp.text = ""
    /\ calls = <<Call("onError", "NO_TOKEN")>>
    /\ LiveSocks = {} /\ timeouts = {}

(* a step made by subscribeToUpload or unsubscribeFromUpload *)
CommandStep == lastOp'.op \in {"subscribeToUpload", "unsubscribeFromUpload"}

(* C10: a subscribeToUpload / unsubscribeFromUpload call made while the    *)
(* physical connection is not open passes no frame to any socket and       *)
(* leaves nothing behind: the channel state is unchanged, and a socket     *)
(* that opens has been handed the auth frame and nothing else.             *)
C10_DroppedWhileDisconnected ==
    [][ /\ (CommandStep /\ ~(ws # 0 /\ readyState[ws] = "OPEN")) =>
              /\ sent' = sent
              /\ ChannelState' = ChannelState
              /\ calls' = <<>>
        /\ \A s \in SockIds : OpenStep(s) =>
              sent'[s] = <<Frame("auth", connToken[s])>>
      ]_vars

(* subscribeToUpload was called while a reconnect was scheduled *)
C10_Witness ==
    /\ lastOp.op = "subscribeToUpload"
    /\ timeouts # {} /\ LiveSocks = {}
    /\ \A s \in SockIds : sent[s] = <<>>

(* positions of the subscribe_upload frames in a frame log *)
SubFrames(q) == {i \in 1..Len(q) : q[i].kind = "subscribe_upload"}

(* C11: while the physical connection is open, a subscribeToUpload(id) or  *)
(* unsubscribeFromUpload(id) call hands the socket exactly one frame, the  *)
(* command of that call for that id; and no other step, a reconnect        *)
(* included, ever hands a socket a subscribe_upload frame.                 *)
C11_OneFramePerCommand ==
    [][ /\ (CommandStep /\ ws # 0 /\ readyState[ws] = "OPEN") =>
              /\ sent'[ws] = Append(sent[ws],
                    Frame(IF lastOp'.op = "subscribeToUpload"
                          THEN "subscribe_upload" ELSE "unsubscribe_upload",
                          lastOp'.text))
              /\ \A s \in SockIds \ {ws} : sent'[s] = sent[s]
        /\ lastOp'.op # "subscribeToUpload" =>
              \A s \in SockIds :
                  Cardinality(SubFrames(sent'[s])) <= Cardinality(SubFrames(sent[s]))
      ]_vars

(* on a reconnected, open socket the consumer has unsubscribed: the socket *)
(* was handed the auth frame and that one command                          *)
C11_Witness ==
    /\ lastOp.op = "unsubscribeFromUpload" /\ failedSinceAuth >= 1
    /\ ws # 0 /\ readyState[ws] = "OPEN"
    /\ Len(sent[ws]) = 2
    /\ sent[ws][2] = Frame("unsubscribe_upload", "u1")

(* a step in which onmessage received text that is not JSON, JSON with an  *)
(* unknown action, or JSON whose payload violates the schema               *)
MalformedStep ==
    /\ lastOp'.op = "onmessage"
    /\ (lastOp'.code \in {0, 1} \/ lastOp'.text = "bogus")

(* C12: an inbound frame that is not JSON, has an unknown action or        *)
(* violates the payload schema invokes no consumer callback and no error   *)
(* callback, sends no frame and leaves the connection and reconnection     *)
(* state as it was.                                                        *)
C12_MalformedDropped ==
    [][ MalformedStep => calls' = <<>> /\ ChannelState' = ChannelState ]_vars

(* an upload_progress frame with a payload of the wrong shape was dropped *)
C12_Witness ==
    /\ lastOp.op = "onmessage" /\ lastOp.code = 1
    /\ lastOp.text = "upload_progress"
    /\ calls = <<>> /\ readyState[lastOp.sock] = "OPEN"

(* the callback each progress message is to be forwarded to *)
C13_OwnCallback(action) ==
    CASE action = "upload_progress" -> "onProgress"
      [] action = "upload_completed" -> "onCompleted"
      [] action = "upload_failed" -> "onFailed"
      [] action = "batch_progress" -> "onBatchProgress"
      [] action = "file_progress" -> "onFileProgress"

(* C13: a well-formed inbound message of kind upload_progress,             *)
(* upload_completed, upload_failed, batch_progress or file_progress is     *)
(* forwarded to its own callback exactly once and to no other callback.    *)
C13_ForwardedToOwnCallback ==
    [][ (lastOp'.op = "onmessage" /\ lastOp'.code = 2
           /\ lastOp'.text \in {"upload_progress", "upload_completed",
                                "upload_failed", "batch_progress",
                                "file_progress"}) =>
          \E u \in UploadIds : calls' = <<Call(C13_OwnCallback(lastOp'.text), u)>>
      ]_vars

(* a step in which onmessage handled a well-formed auth_error *)
AuthErrorStep ==
    lastOp'.op = "onmessage" /\ lastOp'.code = 2 /\ lastOp'.text = "auth_error"

C15_OpenHandshake ==
    [][ \A s \in SockIds : OpenStep(s) =>
          /\ attempt' = 0
          /\ sent[s] = <<>>
          /\ sent'[s] = <<Frame("auth", connToken[s])>>
          /\ heartbeatTimer' # 0
          /\ heartbeatTimer' \notin intervals
          /\ intervals' = intervals \cup {heartbeatTimer'}
      ]_vars

(* a socket has just opened: auth frame out, heartbeat running *)
C15_Witness ==
    /\ lastOp.op = "onopen" /\ ws # 0 /\ attempt = 0
    /\ sent[ws] = <<Frame("auth", "tokB")>>
    /\ intervals = {heartbeatTimer}

(* positions of the heartbeat ping frames in a frame log *)
PingFrames(q) == {i \in 1..Len(q) : q[i].kind = "ping"}

(* C16: never is more than one heartbeat interval active; an active one is *)
(* the one in this.heartbeatTimer, and then close() has not been called    *)
(* and the current socket is open; handling a close event or calling       *)
(* close() leaves none active; a ping frame is handed only to an open      *)
(* socket.                                                                 *)
C16_HeartbeatLifetime ==
    [][ /\ Cardinality(intervals') <= 1
        /\ intervals' # {} =>
              /\ intervals' = {heartbeatTimer'}
              /\ ~isIntentionallyClosed'
              /\ ws' # 0 /\ readyState'[ws'] = "OPEN"
        /\ (lastOp'.op = "close" \/ \E s \in SockIds : CloseStep(s)) =>
              intervals' = {} /\ heartbeatTimer' = 0
        /\ \A s \in SockIds :
              Cardinality(PingFrames(sent'[s])) > Cardinality(PingFrames(sent[s])) =>
                 readyState[s] = "OPEN" /\ lastOp'.op = "heartbeat"
      ]_vars

(* the interval has ticked on an open socket and sent its ping *)
C16_Witness ==
    /\ lastOp.op = "heartbeat" /\ ws # 0 /\ readyState[ws] = "OPEN"
    /\ sent[ws] = <<Frame("auth", connToken[ws]), Frame("ping", "")>>
    /\ intervals = {heartbeatTimer}

(* sockets that are connecting or open *)
ActiveSocks == {s \in SockIds : readyState[s] \in {"CONNECTING", "OPEN"}}

(* C17: at most one socket is connecting or open; a socket is created only *)
(* by the constructor or by the reconnect timer firing, and then no        *)
(* earlier socket is still awaiting its close event; while a reconnect     *)
(* timer is armed no socket is connecting or open; at most one reconnect   *)
(* timer is armed.                                                         *)
C17_OneConnection ==
    [][ /\ Cardinality(ActiveSocks') <= 1
        /\ Created # {} =>
              /\ (~constructed /\ constructed') \/ lastOp'.op = "reconnectFire"
              /\ Cardinality(Created) = 1
              /\ LiveSocks = {}
              /\ ws' \in Created
        /\ timeouts' # {} => ActiveSocks' = {}
        /\ Cardinality(timeouts') <= 1
      ]_vars

(* the first reconnect has fired and created the second socket *)
C17_Witness ==
    /\ lastOp.op = "reconnectFire" /\ attempt = 1
    /\ ActiveSocks = {ws} /\ timeouts = {}
    /\ failedSinceOpen = 1

(* C18: a well-formed ping is answered in the same step with exactly one   *)
(* pong frame on the socket that received it; no other socket is sent      *)
(* anything and no consumer callback runs.                                 *)
C18_PingPong ==
    [][ (lastOp'.op = "onmessage" /\ lastOp'.code = 2 /\ lastOp'.text = "ping") =>
          /\ sent'[lastOp'.sock] = Append(sent[lastOp'.sock], Frame("pong", ""))
          /\ \A s \in SockIds \ {lastOp'.sock} : sent'[s] = sent[s]
          /\ calls' = <<>>
      ]_vars

(* the server's ping has been answered *)
C18_Witness ==
    /\ lastOp.op = "onmessage" /\ lastOp.text = "ping" /\ lastOp.code = 2
    /\ sent[lastOp.sock] = <<Frame("auth", connToken[lastOp.sock]), Frame("pong", "")>>
    /\ calls = <<>>

(* C19: an error event reports ConnectionFailed once and changes nothing   *)
(* else: attempt counter, timers, heartbeat, sockets and sent frames stay  *)
(* as they were; a reconnect timer is armed only by a close event.         *)
C19_ErrorOnlyReports ==
    [][ /\ lastOp'.op = "onerror" =>
              /\ calls' = <<Call("onError", "CONNECTION_FAILED")>>
              /\ errCount' = [errCount EXCEPT !["CONNECTION_FAILED"] = @ + 1]
              /\ UNCHANGED <<ws, attempt, heartbeatTimer, reconnectTimer,
                             isIntentionallyClosed, readyState, timeouts,
                             intervals, sent, closeCalls>>
        /\ (timeouts' \ timeouts # {}) => \E s \in SockIds : CloseStep(s)
      ]_vars

(* an error event on an open socket whose heartbeat keeps running *)
C19_Witness ==
    /\ lastOp.op = "onerror" /\ readyState[lastOp.sock] = "OPEN"
    /\ intervals = {heartbeatTimer} /\ timeouts = {}
    /\ errCount["CONNECTION_FAILED"] = 1

(* C20: connect() reads the token when the socket is created, and the auth *)
(* frame sent when that socket opens carries the token read then, whatever *)
(* the accessor returns by the time of the open.                           *)
C20_FreshTokenPerAttempt ==
    [][ /\ \A s \in Created : connToken'[s] = accessToken
        /\ \A s \in SockIds \ Created :
              readyState'[s] # "CLOSED" => connToken'[s] = connToken[s]
        /\ \A s \in SockIds : OpenStep(s) =>
              sent'[s] = Append(sent[s], Frame("auth", connToken[s]))
      ]_vars

(* a reconnected socket authenticates with the token read at its attempt,  *)
(* which the accessor has since replaced                                   *)
C20_Witness ==
    /\ lastOp.op = "onopen" /\ failedSinceAuth >= 1
    /\ connToken[lastOp.sock] = "tokB" /\ accessToken = "tokA"
    /\ sent[lastOp.sock] = <<Frame("auth", "tokB")>>

----------------------------------------------------------------------------
(* The useSocket hook                                                      *)

(* the effect goes past its two early returns *)
CreatesConnection(e, t) == e /\ ~Falsy(t)

(* the object that new VuemanticWebSocket(...) yields *)
NewInst(cr) == Cardinality(cr) + 1

(* variant: the cleanup drops the reference without closing *)
ClosedByCleanupMissing(cc, ref) == cc

(* the cleanup: if (wsRef.current) wsRef.current.close() *)
ClosedByCleanup(cc, ref) == IF ref # 0 THEN [cc EXCEPT ![ref] = @ + 1] ELSE cc

(* the cleanup: setIsConnected(false) *)
ConnectedAfterCleanup(flag) == FALSE

(* the cleanup function the effect returned, if it returned one, followed  *)
(* by the effect body for the dependencies (e, t); threw: the constructor  *)
(* raised and the catch block returned                                     *)
CleanupThenEffect(e, t, threw) ==
    /\ closeCount' = ClosedByCleanup(closeCount, wsRef)
    /\ instConnected' = IF wsRef # 0 THEN [instConnected EXCEPT ![wsRef] = FALSE]
                        ELSE instConnected
    /\ isConnected' = IF wsRef # 0 THEN ConnectedAfterCleanup(isConnected)
                      ELSE isConnected
    /\ IF CreatesConnection(e, t) /\ ~threw
       THEN /\ Cardinality(created) < MaxInst
            /\ created' = created \cup {NewInst(created)}
            /\ wsRef' = NewInst(created)
            /\ checkConnection' = TRUE
       ELSE /\ wsRef' = 0
            /\ checkConnection' = FALSE
            /\ UNCHANGED created

InitHook ==
    /\ mounted = "no" /\ enabled \in BOOLEAN /\ storeToken \in Tokens
    /\ wsRef = 0 /\ created = {}
    /\ closeCount = [i \in InstIds |-> 0]
    /\ instConnected = [i \in InstIds |-> FALSE]
    /\ checkConnection = FALSE /\ isConnected = FALSE
    /\ hookOp = "init"
    /\ TransportAbsent /\ AggAbsent /\ OrdAbsent /\ BulkAbsent

(* first render and commit: the effect runs *)
Mount ==
    /\ UNCHANGED outsideHook
    /\ mounted = "no"
    /\ mounted' = "yes"
    /\ \E threw \in BOOLEAN : CleanupThenEffect(enabled, storeToken, threw)
    /\ hookOp' = "mount"
    /\ UNCHANGED <<enabled, storeToken>>

(* a render with a changed dependency: cleanup of the old effect, then the *)
(* effect again                                                            *)
Rerender(e, t) ==
    /\ UNCHANGED outsideHook
    /\ mounted = "yes"
    /\ <<e, t>> # <<enabled, storeToken>>
    /\ enabled' = e /\ storeToken' = t
    /\ \E threw \in BOOLEAN : CleanupThenEffect(e, t, threw)
    /\ hookOp' = "rerender"
    /\ UNCHANGED mounted

(* the consumer unmounts: the cleanup runs *)
Unmount ==
    /\ UNCHANGED outsideHook
    /\ mounted = "yes"
    /\ mounted' = "gone"
    /\ CleanupThenEffect(FALSE, storeToken, FALSE)
    /\ hookOp' = "unmount"
    /\ UNCHANGED <<enabled, storeToken>>

(* the checkConnection interval ticks *)
CheckConnectionTick ==
    /\ UNCHANGED outsideHook
    /\ checkConnection
    /\ isConnected' = (wsRef # 0 /\ instConnected[wsRef])
    /\ hookOp' = "tick"
    /\ UNCHANGED <<mounted, enabled, storeToken, wsRef, created, closeCount,
                   instConnected, checkConnection>>

(* the socket of a connection that has not been closed opens or drops *)
SocketChange(i) ==
    /\ UNCHANGED outsideHook
    /\ i \in created /\ closeCount[i] = 0
    /\ instConnected' = [instConnected EXCEPT ![i] = ~@]
    /\ hookOp' = "socket"
    /\ UNCHANGED <<mounted, enabled, storeToken, wsRef, created, closeCount,
                   checkConnection, isConnected>>

(* onReconnect of a connection that has not been closed: auth_success came *)
HookOnReconnect(i) ==
    /\ UNCHANGED outsideHook
    /\ i \in created /\ closeCount[i] = 0 /\ instConnected[i]
    /\ isConnected' = TRUE
    /\ hookOp' = "onReconnect"
    /\ UNCHANGED <<mounted, enabled, storeToken, wsRef, created, closeCount,
                   instConnected, checkConnection>>

NextHook ==
    \/ Mount
    \/ \E e \in BOOLEAN : \E t \in Tokens : Rerender(e, t)
    \/ Unmount
    \/ CheckConnectionTick
    \/ \E i \in InstIds : SocketChange(i)
    \/ \E i \in InstIds : HookOnReconnect(i)

SpecHook == InitHook /\ [][NextHook]_hookVars

(* connections that have been constructed and not closed *)
Unclosed == {i \in created : closeCount[i] = 0}

(* C21: a connection is constructed only with enabled true and a non-empty *)
(* token, and only when every earlier one has been closed; no connection   *)
(* is closed twice; at most one is un-closed; a render that changes        *)
(* enabled or the token, and the unmount, close the connection held and    *)
(* set isConnected to false.                                               *)
C21_HookOwnsOneConnection ==
    [][ /\ (created' # created) =>
              /\ enabled' /\ ~Falsy(storeToken') /\ mounted' = "yes"
              /\ \A i \in created : closeCount'[i] = 1
        /\ \A i \in InstIds : closeCount'[i] <= 1
        /\ Cardinality(Unclosed') <= 1
        /\ Unclosed' = IF wsRef' # 0 THEN {wsRef'} ELSE {}
        /\ (wsRef # 0 /\ (enabled' # enabled \/ storeToken' # storeToken
                          \/ mounted' = "gone")) =>
              /\ closeCount'[wsRef] = closeCount[wsRef] + 1
              /\ ~isConnected'
      ]_hookVars

(* the token was replaced while connected: the first connection has been   *)
(* closed once and a second one is held                                    *)
C21_Witness ==
    /\ hookOp = "rerender" /\ enabled /\ storeToken = "tokB"
    /\ created = {1, 2} /\ closeCount[1] = 1 /\ closeCount[2] = 0
    /\ wsRef = 2 /\ ~isConnected

----------------------------------------------------------------------------
(* The progress aggregators                                                *)

(* Payloads of the events fed to the aggregators: identifier x1 is sent    *)
(* every kind of update, x2 only one, so that "every other entry" has a    *)
(* meaning.                                                                *)
UploadPayload(id, pct) ==
    [upload_id |-> id, progress_percent |-> pct, stage |-> "embedding",
     message |-> "m"]

UploadPayloads ==
    {UploadPayload("x1", 40), UploadPayload("x1", 80), UploadPayload("x2", 40)}

BatchPayload(id, status, processed, failed, pct) ==
    [batch_id |-> id, status |-> status, total |-> 2, processed |-> processed,
     successful |-> processed - failed, failed |-> failed,
     progress_percentage |-> pct]

BatchPayloads ==
    {BatchPayload("x1", "processing", 0, 0, 0),
     BatchPayload("x1", "processing", 1, 0, 50),
     BatchPayload("x1", "completed", 2, 0, 100),
     BatchPayload("x1", "failed", 2, 2, 100),
     BatchPayload("x1", "cancelled", 1, 0, 50),
     BatchPayload("x2", "processing", 1, 0, 50)}

FilePayload(id, status, pct) ==
    [upload_id |-> id, file_name |-> "f", file_size |-> 7,
     progress_percentage |-> pct, status |-> status]

FilePayloads ==
    {FilePayload("x1", "processing", 30), FilePayload("x1", "processing", 70),
     FilePayload("x1", "completed", 100), FilePayload("x1", "failed", 30),
     FilePayload("x2", "processing", 30)}

(* the entry each handler builds from a payload *)
ProgressStateOf(p) ==
    [percent |-> p.progress_percent, stage |-> p.stage, message |-> p.message]

BatchStateOf(p) ==
    [status |-> p.status, total |-> p.total, processed |-> p.processed,
     successful |-> p.successful, failed |-> p.failed,
     progressPercentage |-> p.progress_percentage]

FileStateOf(p) ==
    [uploadId |-> p.upload_id, fileName |-> p.file_name,
     fileSize |-> p.file_size, progress |-> p.progress_percentage,
     status |-> p.status]

(* the entry handleCompleted writes before the side-effect *)
CompletedState ==
    [percent |-> 100, stage |-> "completed", message |-> "Refreshing..."]

(* variant: the update replaces the whole mapping *)
UpsertAlone(m, id, e) == [x \in {id} |-> e]

(* variant: an entry that exists is not overwritten *)
UpsertKeepExisting(m, id, e) ==
    IF id \in DOMAIN m THEN m
    ELSE [x \in DOMAIN m \cup {id} |-> IF x = id THEN e ELSE m[x]]

(* { ...prev, [id]: e } *)
Upsert(m, id, e) == [x \in DOMAIN m \cup {id} |-> IF x = id THEN e ELSE m[x]]

(* variant: only an entry that still shows 100%/completed is removed *)
RemoveIfCompleted(m, id) ==
    IF id \in DOMAIN m /\ m[id] = CompletedState
    THEN [x \in DOMAIN m \ {id} |-> m[x]]
    ELSE m

(* variant: the removal empties the mapping *)
RemoveAll(m, id) == <<>>

(* const next = { ...prev }; delete next[id] *)
Remove(m, id) == [x \in DOMAIN m \ {id} |-> m[x]]

(* the percentage an entry shows, whatever its shape *)
Pct(e) ==
    IF "percent" \in DOMAIN e THEN e.percent
    ELSE IF "progressPercentage" \in DOMAIN e THEN e.progressPercentage
    ELSE e.progress

PctAt(m, id) == IF id \in DOMAIN m THEN Pct(m[id]) ELSE -1

(* the statuses after which each aggregator arms the auto-removal *)
IsTerminalBatch(status) == status \in {"completed", "failed", "cancelled"}
IsTerminalStore(status) == status \in {"completed", "failed"}
IsTerminalFile(status) == status \in {"completed", "failed"}

(* setTimeout(remove id, 5000): all delays are equal, so the callbacks run *)
(* in the order they were armed; stale records that a clear of the         *)
(* identifier has happened since                                           *)
Arm(q, id) == Append(q, [id |-> id, stale |-> FALSE])

MarkStale(q, ids) ==
    [i \in 1..Len(q) |-> IF q[i].id \in ids THEN [q[i] EXCEPT !.stale = TRUE]
                         ELSE q[i]]

(* variant: the updater writes into the object it was given *)
NewObjectSame(obj, snap) == obj

(* every updater returns a new object: its identity differs from the one a *)
(* consumer holds                                                          *)
NewObject(obj, snap) ==
    IF snap # <<>> /\ snap[1].obj = obj THEN 3 - obj ELSE obj

(* the state an aggregator step leaves behind *)
Commit(op, id, arg, m, q, aw, cf, fx) ==
    /\ progress' = m
    /\ objId' = NewObject(objId, snapshot)
    /\ expiry' = q
    /\ awaiting' = aw
    /\ currentFile' = cf
    /\ aggCalls' = fx
    /\ aggOp' = [op |-> op, id |-> id, arg |-> arg,
                 before |-> PctAt(progress, id)]
    /\ UNCHANGED <<focus, snapshot>>
    /\ UNCHANGED outsideAgg

InitAgg ==
    /\ focus \in Aggregators
    /\ progress = <<>> /\ objId = 1 /\ snapshot = <<>>
    /\ expiry = <<>> /\ awaiting = [x \in AggIds |-> 0]
    /\ currentFile = <<>> /\ aggCalls = <<>>
    /\ aggOp = [op |-> "init", id |-> "", arg |-> NoArg, before |-> -1]
    /\ TransportAbsent /\ HookAbsent /\ OrdAbsent /\ BulkAbsent

(* useUploadProgress *)
handleProgress(p) ==
    /\ focus = "upload"
    /\ Commit("handleProgress", p.upload_id, p,
              Upsert(progress, p.upload_id, ProgressStateOf(p)),
              expiry, awaiting, currentFile, <<>>)

(* handleCompleted up to its await; without onComplete it runs to its end *)
handleCompleted(u, hasCallback) ==
    /\ focus = "upload"
    /\ IF hasCallback
       THEN /\ awaiting[u] < MaxAwait
            /\ Commit("handleCompleted", u, Flag(TRUE), Upsert(progress, u, CompletedState),
                      expiry, [awaiting EXCEPT ![u] = @ + 1], currentFile,
                      <<"onComplete">>)
       ELSE Commit("handleCompleted", u, Flag(FALSE),
                   Remove(Upsert(progress, u, CompletedState), u),
                   expiry, awaiting, currentFile, <<>>)

(* the awaited onComplete settles: handleCompleted resumes and removes the *)
(* entry, or the rejection leaves the async function                       *)
SettleCompleted(u, fulfilled) ==
    /\ focus = "upload"
    /\ awaiting[u] > 0
    /\ IF fulfilled
       THEN Commit("settled", u, Flag(TRUE), Remove(progress, u), expiry,
                   [awaiting EXCEPT ![u] = @ - 1], currentFile, <<>>)
       ELSE /\ awaiting' = [awaiting EXCEPT ![u] = @ - 1]
            /\ aggCalls' = <<>>
            /\ aggOp' = [op |-> "rejected", id |-> u, arg |-> Flag(FALSE),
                         before |-> PctAt(progress, u)]
            /\ UNCHANGED <<focus, progress, objId, snapshot, expiry, currentFile>>
            /\ UNCHANGED outsideAgg

handleFailed(u, hasCallback) ==
    /\ focus = "upload"
    /\ Commit("handleFailed", u, Flag(hasCallback), Remove(progress, u), expiry, awaiting,
              currentFile, IF hasCallback THEN <<"onFail">> ELSE <<>>)

setProgress(u, e) ==
    /\ focus = "upload"
    /\ Commit("setProgress", u, e, Upsert(progress, u, e), expiry, awaiting,
              currentFile, <<>>)

clearProgress(u) ==
    /\ focus = "upload"
    /\ Commit("clearProgress", u, NoArg, Remove(progress, u), expiry, awaiting,
              currentFile, <<>>)

(* useBatchProgress *)
handleBatchProgress(p) ==
    /\ focus = "batch"
    /\ IsTerminalBatch(p.status) => Len(expiry) < MaxExpiry
    /\ Commit("handleBatchProgress", p.batch_id, p,
              Upsert(progress, p.batch_id, BatchStateOf(p)),
              IF IsTerminalBatch(p.status) THEN Arm(expiry, p.batch_id)
              ELSE expiry,
              awaiting, currentFile, <<>>)

setBatchProgress(b, e) ==
    /\ focus = "batch"
    /\ Commit("setBatchProgress", b, e, Upsert(progress, b, e), expiry, awaiting,
              currentFile, <<>>)

clearBatchProgress(b) ==
    /\ focus = "batch"
    /\ Commit("clearBatchProgress", b, NoArg, Remove(progress, b),
              MarkStale(expiry, {b}), awaiting, currentFile, <<>>)

clearAllBatchProgress ==
    /\ focus = "batch"
    /\ Commit("clearAllBatchProgress", "", NoArg, <<>>, MarkStale(expiry, AggIds),
              awaiting, currentFile, <<>>)

(* useFileProgress *)
handleFileProgress(p) ==
    /\ focus = "file"
    /\ IsTerminalFile(p.status) => Len(expiry) < MaxExpiry
    /\ Commit("handleFileProgress", p.upload_id, p,
              Upsert(progress, p.upload_id, FileStateOf(p)),
              IF IsTerminalFile(p.status) THEN Arm(expiry, p.upload_id)
              ELSE expiry,
              awaiting,
              IF p.status = "processing" THEN <<FileStateOf(p)>>
              ELSE IF IsTerminalFile(p.status) THEN <<>>
              ELSE currentFile,
              <<>>)

clearFileProgress ==
    /\ focus = "file"
    /\ Commit("clearFileProgress", "", NoArg, <<>>, MarkStale(expiry, AggIds),
              awaiting, <<>>, <<>>)

(* useGlobalBatchProgress *)
storeSetBatchProgress(b, e) ==
    /\ focus = "global"
    /\ IsTerminalStore(e.status) => Len(expiry) < MaxExpiry
    /\ Commit("storeSetBatchProgress", b, e, Upsert(progress, b, e),
              IF IsTerminalStore(e.status) THEN Arm(expiry, b) ELSE expiry,
              awaiting, currentFile, <<>>)

clearBatch(b) ==
    /\ focus = "global"
    /\ Commit("clearBatch", b, NoArg, Remove(progress, b), MarkStale(expiry, {b}),
              awaiting, currentFile, <<>>)

(* the oldest auto-expiry timeout fires and removes its identifier *)
ExpiryFire ==
    /\ expiry # <<>>
    /\ Commit("expire", Head(expiry).id, NoArg, Remove(progress, Head(expiry).id),
              Tail(expiry), awaiting, currentFile, <<>>)

(* a consumer renders: it takes the object that holds the mapping *)
ReadSnapshot ==
    /\ snapshot # <<[obj |-> objId, value |-> progress]>>
    /\ snapshot' = <<[obj |-> objId, value |-> progress]>>
    /\ UNCHANGED <<focus, progress, objId, expiry, awaiting, currentFile,
                   aggCalls, aggOp>>
    /\ UNCHANGED outsideAgg

NextAgg ==
    \/ \E p \in UploadPayloads : handleProgress(p)
    \/ \E u \in AggIds : \E c \in BOOLEAN : handleCompleted(u, c)
    \/ \E u \in AggIds : \E f \in BOOLEAN : SettleCompleted(u, f)
    \/ \E u \in AggIds : \E c \in BOOLEAN : handleFailed(u, c)
    \/ \E p \in UploadPayloads : setProgress(p.upload_id, ProgressStateOf(p))
    \/ \E u \in AggIds : clearProgress(u)
    \/ \E p \in BatchPayloads : handleBatchProgress(p)
    \/ \E p \in BatchPayloads : setBatchProgress(p.batch_id, BatchStateOf(p))
    \/ \E b \in AggIds : clearBatchProgress(b)
    \/ clearAllBatchProgress
    \/ \E p \in FilePayloads : handleFileProgress(p)
    \/ clearFileProgress
    \/ \E p \in BatchPayloads : storeSetBatchProgress(p.batch_id, BatchStateOf(p))
    \/ \E b \in AggIds : clearBatch(b)
    \/ ExpiryFire

SpecAgg == InitAgg /\ [][NextAgg]_aggVars

(* The timers fire when their delay has elapsed and an awaited side-effect *)
(* settles one way or the other.                                           *)
SpecAggLive ==
    /\ InitAgg /\ [][NextAgg]_aggVars
    /\ WF_aggVars(ExpiryFire)
    /\ \A u \in AggIds : WF_aggVars(\E f \in BOOLEAN : SettleCompleted(u, f))

(* the step taken last was a terminal event for identifier x *)
TerminalEvent(x) ==
    /\ aggOp.id = x
    /\ \/ aggOp.op \in {"handleCompleted", "handleFailed"}
       \/ /\ aggOp.op \in {"handleBatchProgress", "storeSetBatchProgress"}
          /\ x \in DOMAIN progress
          /\ progress[x].status \in {"completed", "failed", "cancelled"}

(* C22: in the upload aggregator, the batch aggregator and the global      *)
(* batch store a terminal event for an identifier is eventually followed   *)
(* by a state in which the identifier is absent from the mapping.          *)
C22_TerminalEventuallyAbsent ==
    \A x \in AggIds :
        (focus \in {"upload", "batch", "global"} /\ TerminalEvent(x))
            ~> (x \notin DOMAIN progress)

(* a batch update with status cancelled has just been applied *)
CancelledStep ==
    /\ aggOp'.op \in {"handleBatchProgress", "storeSetBatchProgress"}
    /\ aggOp'.id \in DOMAIN progress'
    /\ progress'[aggOp'.id].status = "cancelled"

(* C23: a batch update with status cancelled arms the auto-removal of its  *)
(* entry, in useBatchProgress and in the global batch progress store, as   *)
(* an update with status failed does.                                      *)
C23_CancelledLikeFailed ==
    [][ CancelledStep => expiry' = Arm(expiry, aggOp'.id) ]_aggVars

(* C24: an auto-expiry armed before a clear of its identifier removes      *)
(* nothing when it fires: an entry created for the identifier after the    *)
(* clear stays.                                                            *)
C24_ClearCancelsExpiry ==
    [][ (aggOp'.op = "expire" /\ expiry # <<>> /\ Head(expiry).stale) =>
            progress' = progress ]_aggVars

(* C25: handleCompleted with a side-effect sets the entry to               *)
(* 100%/completed and invokes the side-effect; as long as the side-effect  *)
(* is pending the entry is there at 100%/completed; when the side-effect   *)
(* has finished the entry is absent.                                       *)
C25_CompletedLifecycle ==
    [][ /\ (aggOp'.op = "handleCompleted" /\ awaiting' # awaiting) =>
              /\ aggCalls' = <<"onComplete">>
              /\ progress'[aggOp'.id] = CompletedState
        /\ \A u \in AggIds : awaiting'[u] > 0 =>
              u \in DOMAIN progress' /\ progress'[u] = CompletedState
        /\ \A u \in AggIds : awaiting'[u] < awaiting[u] =>
              u \notin DOMAIN progress'
      ]_aggVars

(* C26: handleFailed for an upload removes that upload's entry, leaves     *)
(* every other entry as it was, and calls onFail once if it was given and  *)
(* nothing otherwise.                                                      *)
C26_FailedRemovesOnly ==
    [][ aggOp'.op = "handleFailed" =>
          /\ DOMAIN progress' = DOMAIN progress \ {aggOp'.id}
          /\ \A x \in DOMAIN progress' : progress'[x] = progress[x]
          /\ aggCalls' = IF aggOp'.arg.flag THEN <<"onFail">> ELSE <<>>
      ]_aggVars

(* upload x1 has failed with a failure side-effect while x2 was in flight  *)
C26_Witness ==
    /\ aggOp.op = "handleFailed" /\ aggOp.id = "x1" /\ aggOp.before >= 0
    /\ aggCalls = <<"onFail">>
    /\ DOMAIN progress = {"x2"}

(* the entry an update event is to leave, field by field *)
C27_EntryOf(op, p) ==
    CASE op = "handleProgress" ->
           [percent |-> p.progress_percent, stage |-> p.stage,
            message |-> p.message]
      [] op = "handleBatchProgress" ->
           [status |-> p.status, total |-> p.total, processed |-> p.processed,
            successful |-> p.successful, failed |-> p.failed,
            progressPercentage |-> p.progress_percentage]
      [] op = "handleFileProgress" ->
           [uploadId |-> p.upload_id, fileName |-> p.file_name,
            fileSize |-> p.file_size, progress |-> p.progress_percentage,
            status |-> p.status]

UpdateOps == {"handleProgress", "handleBatchProgress", "handleFileProgress"}

(* C27: an update event for an identifier leaves an entry for it that is   *)
(* exactly the payload of the event, whether or not there was one before,  *)
(* and leaves the entries of all other identifiers as they were (upload,   *)
(* batch and file aggregator).                                             *)
C27_UpdateSetsOwnEntry ==
    [][ aggOp'.op \in UpdateOps =>
          /\ DOMAIN progress' = DOMAIN progress \cup {aggOp'.id}
          /\ progress'[aggOp'.id] = C27_EntryOf(aggOp'.op, aggOp'.arg)
          /\ \A x \in DOMAIN progress \ {aggOp'.id} : progress'[x] = progress[x]
      ]_aggVars

(* a file update created the entry of x1 next to the entry of x2 *)
C27_Witness ==
    /\ aggOp.op = "handleFileProgress" /\ aggOp.id = "x1" /\ aggOp.before = -1
    /\ DOMAIN progress = {"x1", "x2"}
    /\ progress["x1"].progress = 70 /\ progress["x2"].progress = 30

(* the percentage an update event carries *)
C28_PayloadPct(op, p) ==
    IF op = "handleProgress" THEN p.progress_percent ELSE p.progress_percentage

(* C28: an update whose percentage is smaller than the one the entry       *)
(* shows overwrites it: afterwards the entry shows the smaller one.        *)
C28_NoMonotonicity ==
    [][ (aggOp'.op \in UpdateOps
           /\ aggOp'.before > C28_PayloadPct(aggOp'.op, aggOp'.arg)) =>
          Pct(progress'[aggOp'.id]) = C28_PayloadPct(aggOp'.op, aggOp'.arg)
      ]_aggVars

(* the upload that showed 80 now shows 40 *)
C28_Witness ==
    /\ aggOp.op = "handleProgress" /\ aggOp.id = "x1" /\ aggOp.before = 80
    /\ progress["x1"].percent = 40

----------------------------------------------------------------------------
(* One delivery run: an authenticated open socket delivers frames          *)

InitOrder ==
    /\ constructed = TRUE /\ accessToken = "tokA" /\ ws = 1 /\ attempt = 0
    /\ heartbeatTimer = 1 /\ reconnectTimer = 0
    /\ isIntentionallyClosed = FALSE
    /\ readyState = [s \in SockIds |-> IF s = 1 THEN "OPEN" ELSE "NONE"]
    /\ connToken = [s \in SockIds |-> IF s = 1 THEN "tokA" ELSE NULL]
    /\ timeouts = {} /\ intervals = {1}
    /\ sent = [s \in SockIds |-> IF s = 1 THEN <<AuthFrame("tokA")>> ELSE <<>>]
    /\ closeCalls = 0 /\ calls = <<>>
    /\ errCount = [k \in ErrorKinds |-> 0]
    /\ failedSinceAuth = 0 /\ failedSinceOpen = 0
    /\ lastOp = Op("onopen", 1, 0, "tokA")
    /\ delivered = <<>> /\ dispatched = <<>>
    /\ HookAbsent /\ AggAbsent /\ BulkAbsent

(* the socket delivers frame m: onmessage runs to its end before the next  *)
(* event is taken                                                          *)
Deliver(s, m) ==
    /\ Len(delivered) < MaxDelivered
    /\ OnMessageEffect(s, m)
    /\ delivered' = Append(delivered, m)
    /\ dispatched' = dispatched \o calls'
    /\ UNCHANGED <<hookVars, aggVars, bulkVars>>

NextOrder == \E s \in SockIds : \E m \in InboundFrames : Deliver(s, m)

SpecOrder == InitOrder /\ [][NextOrder]_<<vars, ordVars>>

(* the callback a delivered frame is owed: one for a frame the validator   *)
(* accepts and the switch forwards, none for any other                     *)
C29_Owed(m) ==
    IF ~(m.json /\ m.shapeOk) THEN <<>>
    ELSE CASE m.action = "upload_progress" -> <<Call("onProgress", m.id)>>
           [] m.action = "upload_completed" -> <<Call("onCompleted", m.id)>>
           [] m.action = "upload_failed" -> <<Call("onFailed", m.id)>>
           [] m.action = "auth_success" -> <<Call("onReconnect", "")>>
           [] m.action = "auth_error" -> <<Call("onError", "SERVER_MESSAGE")>>
           [] OTHER -> <<>>

RECURSIVE C29_OwedAll(_)
C29_OwedAll(q) == IF q = <<>> THEN <<>> ELSE C29_Owed(Head(q)) \o C29_OwedAll(Tail(q))

(* C29: the callbacks invoked are, in the order of delivery, one per       *)
(* delivered frame that the validator accepts and the switch forwards;     *)
(* nothing is reordered, merged or held back.                              *)
C29_DispatchInOrder == dispatched = C29_OwedAll(delivered)

(* completed was delivered before progress and dispatched before it *)
C29_Witness ==
    /\ Len(delivered) = 2
    /\ delivered[1].action = "upload_completed"
    /\ delivered[2].action = "upload_progress"
    /\ dispatched = <<Call("onCompleted", "u1"), Call("onProgress", "u1")>>

----------------------------------------------------------------------------
(* Consumers that hold on to the mapping they rendered                     *)

NextSnap ==
    \/ NextAgg
    \/ ReadSnapshot

SpecSnap == InitAgg /\ [][NextSnap]_aggVars

(* C30: the object a consumer read keeps the contents it had when it was   *)
(* read: a step that changes the mapping puts the new mapping into another *)
(* object.                                                                 *)
C30_SnapshotIsValue ==
    [][ /\ (snapshot' # <<>> /\ snapshot'[1].obj = objId') =>
              snapshot'[1].value = progress'
        /\ (snapshot # <<>> /\ snapshot' = snapshot /\ progress' # progress) =>
              objId' # snapshot[1].obj
      ]_aggVars

(* the expiry removed an entry that the consumer's snapshot still shows *)
C30_Witness ==
    /\ snapshot # <<>> /\ aggOp.op = "expire"
    /\ aggOp.id \in DOMAIN snapshot[1].value
    /\ aggOp.id \notin DOMAIN progress
    /\ snapshot[1].obj # objId

----------------------------------------------------------------------------
(* A server that is unreachable: every socket the transport creates closes *)
(* with a code that onclose hands to scheduleReconnect, none ever opens    *)

(* the connection attempt on socket s fails: it closes with a code that    *)
(* onclose passes on to scheduleReconnect, before it has opened            *)
ConnectFails(s) ==
    /\ readyState[s] = "CONNECTING"
    /\ \E code \in CloseCodes :
          CloseDisposition(FALSE, code) = "reconnect" /\ OnClose(s, code)

(* the consumer constructs the transport; every attempt fails, with or     *)
(* without an error event before its close event                           *)
NextFail ==
    \/ Constructor
    \/ \E s \in SockIds : ConnectFails(s)
    \/ \E s \in SockIds : readyState[s] = "CONNECTING" /\ OnError(s)
    \/ \E t \in timeouts : ReconnectFire(t)

(* the consumer has a token when it constructs the transport *)
InitFail == Init /\ ~Falsy(accessToken)

(* every attempt does fail, and an armed timer does fire *)
SpecFail ==
    /\ InitFail /\ [][NextFail]_vars
    /\ WF_vars(Constructor)
    /\ WF_vars(\E s \in SockIds : ConnectFails(s))
    /\ WF_vars(\E t \in timeouts : ReconnectFire(t))

(* the controller has given up after the initial attempt and ten retries:  *)
(* no socket event and no timer callback can happen any more               *)
Exhausted ==
    /\ errCount["MAX_RETRIES"] = 1
    /\ attempt = maxRetries
    /\ failedSinceOpen = maxRetries + 1
    /\ timeouts = {} /\ intervals = {} /\ LiveSocks = {}
    /\ ~ENABLED (\/ \E s \in SockIds : OnOpen(s)
                 \/ \E s \in SockIds : \E m \in InboundFrames : OnMessage(s, m)
                 \/ \E s \in SockIds : \E code \in CloseCodes : OnClose(s, code)
                 \/ \E s \in SockIds : OnError(s)
                 \/ \E t \in timeouts : ReconnectFire(t)
                 \/ \E h \in intervals : HeartbeatTick(h))

(* C31: when every connection attempt fails (each socket closes with a     *)
(* recoverable code and none opens), the controller ends up, for good, in  *)
(* a state where MaxRetriesReached has been reported once, after the       *)
(* initial attempt and exactly ten reconnect attempts, with no timer       *)
(* armed, no socket alive and no socket or timer event left to happen.     *)
C31_FailuresTerminate == <>[]Exhausted

(* the eleventh attempt has just failed and MaxRetriesReached was reported *)
C31_Witness ==
    /\ lastOp.op = "onclose" /\ lastOp.code = 4005
    /\ calls = <<Call("onError", "MAX_RETRIES")>>
    /\ failedSinceOpen = maxRetries + 1 /\ failedSinceAuth = maxRetries + 1
    /\ errCount["NO_TOKEN"] = 0 /\ Exhausted

(* C32: the attempt counter is always in 0..maxRetries (10); a step that   *)
(* changes it either sets it to zero or raises it by exactly one, and it   *)
(* is raised only by scheduleReconnect.                                    *)
C32_AttemptRange ==
    [][ /\ attempt \in 0..maxRetries /\ attempt' \in 0..maxRetries
        /\ attempt' # attempt =>
              \/ attempt' = 0
              \/ /\ attempt' = attempt + 1
                 /\ lastOp'.op = "onclose" /\ lastOp'.text = "reconnect"
      ]_vars

(* scheduleReconnect has raised the counter to its largest value *)
C32_Witness ==
    /\ lastOp.op = "onclose" /\ lastOp.text = "reconnect"
    /\ attempt = maxRetries /\ reconnectTimer # 0 /\ calls = <<>>

(* C33: on every physical socket the first frame handed to send() is the   *)
(* auth frame: a subscribe_upload, unsubscribe_upload, ping or pong frame  *)
(* is handed over only to a socket that has been handed its auth frame     *)
(* before, whatever the order of consumer calls, timers and socket events. *)
C33_AuthFrameFirst ==
    [][ \A s \in SockIds :
          /\ sent'[s] # <<>> => sent'[s][1].kind = "auth"
          /\ (Len(sent'[s]) > Len(sent[s]) /\ sent'[s][Len(sent'[s])].kind # "auth") =>
                sent[s] # <<>> /\ sent[s][1].kind = "auth"
      ]_vars

(* a reconnected socket was handed its auth frame and then a subscription *)
C33_Witness ==
    /\ lastOp.op = "subscribeToUpload" /\ failedSinceAuth >= 1
    /\ ws # 0 /\ readyState[ws] = "OPEN"
    /\ sent[ws] = <<Frame("auth", connToken[ws]), Frame("subscribe_upload", "u1")>>

(* C34: an auto-expiry that fires while the entry of its identifier shows  *)
(* a non-terminal status (an update came after the terminal event) leaves  *)
(* the entry in place (batch aggregator, file aggregator, global store).   *)
C34_ExpiryKeepsNonTerminal ==
    [][ (/\ aggOp'.op = "expire"
         /\ focus \in {"batch", "file", "global"}
         /\ aggOp'.id \in DOMAIN progress
         /\ progress[aggOp'.id].status \notin {"completed", "failed", "cancelled"}) =>
          /\ aggOp'.id \in DOMAIN progress'
          /\ progress'[aggOp'.id] = progress[aggOp'.id]
      ]_aggVars

(* C35: when the side-effect awaited by handleCompleted settles, by        *)
(* resolving or by rejecting, the entry of the completed upload is absent. *)
C35_RemovedHoweverSettled ==
    [][ aggOp'.op \in {"settled", "rejected"} =>
          aggOp'.id \notin DOMAIN progress' ]_aggVars

(* C36: when handleCompleted has run to its end for upload U, its awaited  *)
(* side-effect included, the entry of U is absent, whatever updates for U  *)
(* were applied while the side-effect was pending; the removal and those   *)
(* updates leave the entries of all other identifiers as they were.        *)
C36_CompletedWinsOverInterleaved ==
    [][ /\ aggOp'.op = "settled" =>
              /\ aggOp'.id \notin DOMAIN progress'
              /\ DOMAIN progress' = DOMAIN progress \ {aggOp'.id}
              /\ \A x \in DOMAIN progress' : progress'[x] = progress[x]
        /\ (aggOp'.op \in {"handleProgress", "setProgress"}
              /\ awaiting[aggOp'.id] > 0) =>
              /\ DOMAIN progress' = DOMAIN progress \cup {aggOp'.id}
              /\ \A x \in DOMAIN progress \ {aggOp'.id} : progress'[x] = progress[x]
      ]_aggVars

(* the side-effect of x1 resolved after a progress event had put x1 back   *)
(* to 80%: x1 is gone, x2 is untouched                                     *)
C36_Witness ==
    /\ aggOp.op = "settled" /\ aggOp.id = "x1" /\ aggOp.before = 80
    /\ DOMAIN progress = {"x2"} /\ progress["x2"].percent = 40
    /\ awaiting["x1"] = 0

(* C37: once close() has run, no step invokes a consumer callback any      *)
(* more, whatever socket events are delivered.                             *)
C37_SilentAfterClose ==
    [][ isIntentionallyClosed => calls' = <<>> ]_vars

----------------------------------------------------------------------------
(* Consumer callbacks that throw while onmessage dispatches to them        *)

(* the argument the switch of onmessage hands to the callback *)
DispatchArg(m) ==
    CASE m.action = "auth_success" -> ""
      [] m.action = "auth_error" -> "SERVER_MESSAGE"
      [] OTHER -> m.id

(* variant: the catch block reports the exception as a connection error *)
CatchBlockReports(cs) == Append(cs, Call("onError", "CONNECTION_FAILED"))

(* catch { } of onmessage: the block is empty, nothing is invoked in it *)
CatchBlock(cs) == cs

(* the socket delivers frame m, the validator accepts it, the switch calls *)
(* the consumer callback and the callback throws: control goes from the    *)
(* call to the catch block, past whatever follows the call in its case     *)
(* (for auth_error: this.close())                                          *)
DeliverThrows(s, m) ==
    /\ Len(delivered) < MaxDelivered
    /\ readyState[s] = "OPEN"
    /\ SafeParse(m) /\ Dispatch(m.action) # "none"
    /\ calls' = CatchBlock(<<Call(Dispatch(m.action), DispatchArg(m))>>)
    /\ errCount' = IF m.action = "auth_error"
                   THEN ErrInc(errCount, "SERVER_MESSAGE") ELSE errCount
    /\ lastOp' = Op("onmessageThrew", s, FrameClass(m), m.action)
    /\ delivered' = Append(delivered, m)
    /\ dispatched' = dispatched \o calls'
    /\ UNCHANGED <<constructed, accessToken, ws, attempt, heartbeatTimer,
                   reconnectTimer, isIntentionallyClosed, readyState,
                   connToken, timeouts, intervals, sent, closeCalls,
                   failedSinceAuth, failedSinceOpen>>
    /\ UNCHANGED <<hookVars, aggVars, bulkVars>>

NextThrow ==
    \/ \E s \in SockIds : \E m \in InboundFrames : Deliver(s, m)
    \/ \E s \in SockIds : \E m \in InboundFrames : DeliverThrows(s, m)

SpecThrow == InitOrder /\ [][NextThrow]_<<vars, ordVars>>

(* C38: when a consumer callback throws while a valid frame is dispatched  *)
(* to it, nothing but that callback is invoked (no error callback for the  *)
(* exception), the socket stays open and current, the attempt counter, the *)
(* timers and the intentional-close flag stay as they were; and the frame  *)
(* delivered next is dispatched as any other.                              *)
C38_CallbackThrowContained ==
    [][ /\ lastOp'.op = "onmessageThrew" =>
              /\ calls' = <<Call(Dispatch(lastOp'.text), DispatchArg(delivered'[Len(delivered')]))>>
              /\ \A k \in ErrorKinds \ {"SERVER_MESSAGE"} : errCount'[k] = errCount[k]
              /\ errCount'["SERVER_MESSAGE"] =
                    errCount["SERVER_MESSAGE"]
                       + (IF lastOp'.text = "auth_error" THEN 1 ELSE 0)
              /\ readyState'[lastOp'.sock] = "OPEN" /\ ws' = lastOp'.sock
              /\ UNCHANGED <<ws, attempt, heartbeatTimer, reconnectTimer,
                             isIntentionallyClosed, readyState, timeouts,
                             intervals, sent, closeCalls>>
        /\ (lastOp.op = "onmessageThrew" /\ lastOp'.op = "onmessage") =>
              /\ calls' = C29_Owed(delivered'[Len(delivered')])
              /\ dispatched' = dispatched \o C29_Owed(delivered'[Len(delivered')])
      ]_<<vars, ordVars>>

(* onProgress threw on the first frame; the upload_completed frame that    *)
(* came next has been dispatched to onCompleted on the same open socket    *)
C38_Witness ==
    /\ Len(delivered) = 2 /\ lastOp.op = "onmessage"
    /\ delivered[1].action = "upload_progress"
    /\ delivered[2].action = "upload_completed" /\ delivered[2].shapeOk
    /\ dispatched = <<Call("onProgress", "u1"), Call("onCompleted", "u1")>>
    /\ calls = <<Call("onCompleted", "u1")>>
    /\ readyState[1] = "OPEN" /\ ws = 1 /\ intervals = {1}

(* C39: in the file aggregator a currentFile that is not null has status   *)
(* processing and is the entry the fileProgress map holds under its        *)
(* upload id.                                                              *)
C39_CurrentFileInMap ==
    (focus = "file" /\ currentFile # <<>>) =>
        /\ currentFile[1].status = "processing"
        /\ currentFile[1].uploadId \in DOMAIN progress
        /\ progress[currentFile[1].uploadId] = currentFile[1]

----------------------------------------------------------------------------
(* The bulk upload page and its queue store                                *)

(* the files a user can drop or select, one or two at a time: a name,     *)
(* whether the size exceeds the limit, whether the type is one of          *)
(* ACCEPTED_TYPES                                                          *)
FileLists ==
    LET Files == [name : {"a", "b"}, big : BOOLEAN, accepted : BOOLEAN] IN
    {<<f>> : f \in Files}
    \cup {<<f, [name |-> "b", big |-> FALSE, accepted |-> TRUE]>> : f \in Files}

(* validateFile: the size is tested before the type *)
ValidateFile(f) ==
    IF f.big THEN "too-large" ELSE IF ~f.accepted THEN "unsupported" ELSE "valid"

(* `${Date.now()}-${Math.random()}`: an id no queued file has; the n-th    *)
(* file of one call gets the n-th free one                                 *)
FreshId(q, n) ==
    LET free == (1..MaxQueue) \ {q[i].id : i \in 1..Len(q)} IN
    CHOOSE k \in free : Cardinality({j \in free : j < k}) = n - 1

(* the store's actions, as functions of its state *)
addFiles(st, files) == [st EXCEPT !.fileQueue = @ \o files]

removeFile(st, id) ==
    [st EXCEPT !.fileQueue = SelectSeq(@, LAMBDA f : f.id # id)]

clearQueue(st) == [st EXCEPT !.fileQueue = <<>>, !.currentBatchId = NULL]

setDragActive(st, active) == [st EXCEPT !.dragActive = active]

setCurrentBatchId(st, batchId) == [st EXCEPT !.currentBatchId = batchId]

(* processFiles(files): every file is queued with its status: duplicate   *)
(* if the queue already has a file of its name, else what validateFile     *)
(* says                                                                    *)
processFiles(st, fs) ==
    LET q == st.fileQueue IN
    addFiles(st, [n \in 1..Len(fs) |->
                    [id |-> FreshId(q, n), name |-> fs[n].name,
                     status |-> IF \E i \in 1..Len(q) : q[i].name = fs[n].name
                                THEN "duplicate" ELSE ValidateFile(fs[n])]])

InitBulk ==
    /\ BulkAbsent
    /\ TransportAbsent /\ HookAbsent /\ AggAbsent /\ OrdAbsent

(* handleDrag: dragenter / dragover set the flag, dragleave resets it *)
handleDrag(type) ==
    /\ store' = IF type \in {"dragenter", "dragover"} THEN setDragActive(store, TRUE)
                ELSE IF type = "dragleave" THEN setDragActive(store, FALSE)
                ELSE store
    /\ store' # store
    /\ bulkOp' = [op |-> "handleDrag", id |-> type]
    /\ UNCHANGED creating
    /\ UNCHANGED outsideBulk

(* handleDrop: the flag is reset and the dropped files are processed *)
handleDrop(fs) ==
    /\ Len(store.fileQueue) + Len(fs) <= MaxQueue
    /\ store' = processFiles(setDragActive(store, FALSE), fs)
    /\ bulkOp' = [op |-> "handleDrop", id |-> ""]
    /\ UNCHANGED creating
    /\ UNCHANGED outsideBulk

(* handleFileSelect: the selected files are processed *)
handleFileSelect(fs) ==
    /\ Len(store.fileQueue) + Len(fs) <= MaxQueue
    /\ store' = processFiles(store, fs)
    /\ bulkOp' = [op |-> "handleFileSelect", id |-> ""]
    /\ UNCHANGED creating
    /\ UNCHANGED outsideBulk

(* the queue's remove button of one file *)
RemoveQueued(id) ==
    /\ \E i \in 1..Len(store.fileQueue) : store.fileQueue[i].id = id
    /\ store' = removeFile(store, id)
    /\ bulkOp' = [op |-> "removeFile", id |-> ""]
    /\ UNCHANGED creating
    /\ UNCHANGED outsideBulk

(* the queue's clear button *)
ClearQueued ==
    /\ store.fileQueue # <<>>
    /\ store' = clearQueue(store)
    /\ bulkOp' = [op |-> "clearQueue", id |-> ""]
    /\ UNCHANGED creating
    /\ UNCHANGED outsideBulk

(* handleUploadAll: without a valid file it only shows a toast, otherwise  *)
(* it starts createBulkUpload.mutate                                       *)
handleUploadAll ==
    /\ IF SelectSeq(store.fileQueue, LAMBDA f : f.status = "valid") = <<>>
       THEN /\ bulkOp.op # "noValidFiles"
            /\ bulkOp' = [op |-> "noValidFiles", id |-> ""]
            /\ UNCHANGED creating
       ELSE /\ creating < MaxCreating
            /\ creating' = creating + 1
            /\ bulkOp' = [op |-> "mutate", id |-> ""]
    /\ UNCHANGED store
    /\ UNCHANGED outsideBulk

(* the request succeeded with batch b: onSuccess of the mutate call runs   *)
(* setCurrentBatchId(result.batch_id), then clearQueue()                   *)
CreateSucceeds(b) ==
    /\ creating > 0
    /\ creating' = creating - 1
    /\ store' = clearQueue(setCurrentBatchId(store, b))
    /\ bulkOp' = [op |-> "created", id |-> b]
    /\ UNCHANGED outsideBulk

(* the request failed: the mutate call has no onError of its own *)
CreateFails ==
    /\ creating > 0
    /\ creating' = creating - 1
    /\ bulkOp' = [op |-> "createFailed", id |-> ""]
    /\ UNCHANGED store
    /\ UNCHANGED outsideBulk

NextBulk ==
    \/ \E type \in {"dragenter", "dragover", "dragleave"} : handleDrag(type)
    \/ \E fs \in FileLists : handleDrop(fs)
    \/ \E fs \in FileLists : handleFileSelect(fs)
    \/ \E id \in 1..MaxQueue : RemoveQueued(id)
    \/ ClearQueued
    \/ handleUploadAll
    \/ \E b \in {"b1", "b2"} : CreateSucceeds(b)
    \/ CreateFails

SpecBulk == InitBulk /\ [][NextBulk]_bulkVars

(* C40: when a bulk upload has been created, the store holds the id of the *)
(* new batch in currentBatchId and an empty file queue.                    *)
C40_BatchIdKept ==
    [][ bulkOp'.op = "created" =>
          /\ store'.currentBatchId = bulkOp'.id
          /\ store'.fileQueue = <<>>
      ]_bulkVars

====
